---- MODULE Spec2Model ----
(***************************************************************************)
(* Model of the telemetry buffer engine of src/tracer/tracer_factory.py:   *)
(* class TracerFactory (bounded queue.Queue, flush lock, periodic flush    *)
(* thread, exit handler) and the instrumentation wrapper built by          *)
(* TracerFactory.__call__.                                                 *)
(*                                                                         *)
(* Threads: two producers that invoke wrapped functions, the periodic      *)
(* thread running _auto_flush_loop, and the main thread, which calls       *)
(* flush() and add_handler() and at the end runs _on_exit.  Every step     *)
(* below is one synchronised operation of the code (a queue operation, a   *)
(* lock operation, an Event operation, one handler.export call) together   *)
(* with the thread-local statements around it.                             *)
(***************************************************************************)
EXTENDS Integers, Sequences, FiniteSets, TLC

\* ---------------------------------------------------------------- bounds
MaxCalls == 3
MaxCapacity == 2
MaxHandlers == 2

\* ---------------------------------------------------------------- constants
DefaultFlushInterval == 5

Producers == {"p1", "p2"}
Threads == Producers \cup {"timer", "main"}

\* An exception object: its class and its message.
NoExc == [type |-> "", msg |-> ""]
ValueErr == [type |-> "ValueError", msg |-> "boom"]
QueueFull == [type |-> "queue.Full", msg |-> ""]
SinkErr == [type |-> "Exception", msg |-> "export failed"]
TypeErr == [type |-> "TypeError", msg |-> "Handler must be an instance of Handler class."]

\* What a call of the wrapped function does: return value v or raise e.
Returned(v) == [kind |-> "return", val |-> v, exc |-> NoExc]
Raised(e) == [kind |-> "raise", val |-> "None", exc |-> e]
FuncOutcomes == {Returned("v"), Raised(ValueErr)}
ReturnOnly == {Returned("v")}

\* str(e)
Str(e) == e.msg

\* Handler objects: one whose export succeeds, one whose export raises
\* Exception.  The constructor is given handlers of both kinds; add_handler
\* is called with a succeeding handler or with a value that is no Handler.
HandlerKinds == {"ok", "fail"}
HandlerInputs == {"ok", "not_a_handler"}
IsHandlerAny(h) == TRUE
IsHandler(h) == h \in HandlerKinds

\* handler.export(records): the exception it raises, NoExc when it returns.
SinkExport(h) == IF h = "ok" THEN NoExc ELSE SinkErr

\* The except clauses of _save_records: NotImplementedError and Exception.
CaughtNever(e) == FALSE
Caught(e) == e.type \in {"NotImplementedError", "Exception"}

\* Constructor arguments.  Spec builds engines the documentation allows,
\* SpecAnyConfig also the ones it forbids.
ValidConfigs ==
    [max_queue_size : 1..MaxCapacity, flush_interval : {DefaultFlushInterval}]
InvalidConfigs ==
    { [max_queue_size |-> 0, flush_interval |-> DefaultFlushInterval],
      [max_queue_size |-> -1, flush_interval |-> DefaultFlushInterval],
      [max_queue_size |-> 1, flush_interval |-> 0],
      [max_queue_size |-> 1, flush_interval |-> -1] }
InitialHandlers == {<<"fail">>, <<"fail", "ok">>}

VARIABLES
    wrapped,          \* the outcomes the program's wrapped functions can have
    max_queue_size,   \* self.max_queue_size (the constructor argument before Construct)
    flush_interval,   \* self.flush_interval
    flush_on_exit,    \* self.flush_on_exit
    handlers,         \* self.handlers, a sequence of handler kinds
    handlers0,        \* the handlers argument of the constructor
    constructed,      \* __init__ has returned
    queue,            \* self._queue, a sequence of records
    flush_lock,       \* self._flush_lock: "free" or the thread holding it
    stop_event,       \* self._stop_event
    pc,               \* per thread: position outside flush()
    fpc,              \* per thread: position inside flush(), "none" outside
    records,          \* per thread: the local list `records` of flush()
    hidx,             \* per thread: position of the for loop of _save_records
    raised,           \* per thread: exception leaving its current engine call
    cur,              \* per producer: the wrapper invocation in progress
    nextId,           \* number of the next record
    inserted,         \* history: ids whose put succeeded
    arrivals,         \* history: those ids in the order of their puts
    dropped,          \* history: ids whose retry put raised queue.Full
    calls,            \* history: completed wrapper invocations
    batches,          \* history: batches handed to _save_records
    exports,          \* history: handler.export calls, in order
    overlap           \* history: a producer was active while or after _on_exit ran

vars == <<wrapped, handlers0, max_queue_size, flush_interval, flush_on_exit, handlers, constructed,
          queue, flush_lock, stop_event, pc, fpc, records, hidx, raised, cur,
          nextId, inserted, arrivals, dropped, calls, batches, exports, overlap>>

engineVars == <<wrapped, handlers0, max_queue_size, flush_interval, flush_on_exit, constructed>>
histVars == <<inserted, arrivals, dropped, calls, batches, exports>>

NoRecord == [id |-> 0, status |-> "", error_info |-> "", result |-> ""]
NoCall == [id |-> 0, func |-> Returned(""), rec |-> NoRecord, refilled |-> FALSE]

\* ---------------------------------------------------------------- helpers
\* queue.Queue.full(): 0 < maxsize <= qsize; maxsize <= 0 is an unbounded queue.
FullOrFlushing(q, maxsize) == (maxsize > 0 /\ Len(q) >= maxsize) \/ flush_lock # "free"
Full(q, maxsize) == maxsize > 0 /\ Len(q) >= maxsize

\* queue.Queue.get(): the queue after its head was taken.
DequeueKeepsHead(q) == q
Dequeue(q) == Tail(q)

\* threading.Lock.acquire(): possible when nobody holds the lock.
CanAcquireAlways(lock) == TRUE
CanAcquire(lock) == lock = "free"

\* flush(), the body of the drain loop: records.append(item).
CollectInFront(recs, item) == <<item>> \o recs
Collect(recs, item) == Append(recs, item)

\* Thread.join(): returns when the thread has terminated.
JoinedNoWait(p) == TRUE
Joined(p) == p = "dead"

\* _generate_a_record
_generate_a_record(id, status, error_info, result) ==
    [id |-> id, status |-> status, error_info |-> error_info, result |-> result]

\* The record the wrapper builds in its finally block from the call's outcome.
WrapperRecord(id, out) ==
    IF out.kind = "raise"
    THEN _generate_a_record(id, "error", Str(out.exc), "None")
    ELSE _generate_a_record(id, "success", "", out.val)

Ids(s) == {s[i].id : i \in DOMAIN s}


\* ---------------------------------------------------------------- initial states
InitFrom(configs, outcomes, sinks) ==
    /\ wrapped = outcomes
    /\ \E c \in configs :
          /\ max_queue_size = c.max_queue_size
          /\ flush_interval = c.flush_interval
    /\ flush_on_exit = TRUE
    /\ handlers0 \in sinks
    /\ handlers = handlers0
    /\ constructed = FALSE
    /\ queue = <<>>
    /\ flush_lock = "free"
    /\ stop_event = FALSE
    /\ pc = [t \in Threads |-> IF t = "timer" THEN "unstarted" ELSE "idle"]
    /\ fpc = [t \in Threads |-> "none"]
    /\ records = [t \in Threads |-> <<>>]
    /\ hidx = [t \in Threads |-> 0]
    /\ raised = [t \in Threads |-> NoExc]
    /\ cur = [p \in Producers |-> NoCall]
    /\ nextId = 1
    /\ inserted = {}
    /\ arrivals = <<>>
    /\ dropped = {}
    /\ calls = {}
    /\ batches = <<>>
    /\ exports = <<>>
    /\ overlap = FALSE

InitWith(configs, outcomes) == InitFrom(configs, outcomes, InitialHandlers)

\* Spec: valid engines around functions that return.  SpecWrapper: the same
\* engines around functions that return or raise.  SpecAnyConfig: engines
\* built with any arguments.
Init == InitWith(ValidConfigs, ReturnOnly)
InitWrapper == InitWith(ValidConfigs, FuncOutcomes)
InitAnyConfig == InitWith(ValidConfigs \cup InvalidConfigs, ReturnOnly)

\* The engine of the capacity-2 scenario: max_queue_size = 2 and one handler
\* whose export succeeds.
ScenarioConfigs == {c \in ValidConfigs : c.max_queue_size = 2}
InitScenario == InitFrom(ScenarioConfigs, ReturnOnly, {<<"ok">>})

\* ---------------------------------------------------------------- __init__
\* TracerFactory.__init__: stores its arguments without looking at them,
\* creates the queue, the lock and the event, starts the periodic thread
\* (_start_auto_flush) and registers _on_exit.
Construct ==
    /\ ~constructed
    /\ constructed' = TRUE
    /\ queue' = <<>>
    /\ flush_lock' = "free"
    /\ stop_event' = FALSE
    /\ pc' = [pc EXCEPT !["timer"] = "wait"]
    /\ UNCHANGED <<wrapped, handlers0, max_queue_size, flush_interval,
                   flush_on_exit, handlers, fpc, records, hidx, raised, cur, nextId, histVars, overlap>>

\* ---------------------------------------------------------------- wrapper
\* _on_exit has been called (it is running or has ended).
ExitBegun == pc["main"] \in {"exit_flush", "set", "join", "returned", "raised"}

\* What the caller of the wrapper observes: an exception leaving the finally
\* block (exc, raised by _add_to_queue) replaces the pending outcome;
\* otherwise the raise of line 117 or the return of line 137.
WrapperOutcome(func, exc) == IF exc # NoExc THEN Raised(exc) ELSE func

\* The history entry of a completed invocation: adds counts its calls of
\* _add_to_queue (line 135, the only one).
CallEntry(call, exc) ==
    [id |-> call.id, func |-> call.func, rec |-> call.rec, adds |-> 1,
     seen |-> WrapperOutcome(call.func, exc)]

\* A put by producer p succeeded: every other producer whose flush() of
\* line 197 has ended its drain loop and which has not yet made its retry put
\* (line 198) has seen the queue refilled in between (history, kept in the
\* field refilled of cur).  A record put earlier is taken by that drain loop.
MarkRefilled(c, p) ==
    [q \in Producers |->
        IF q # p /\ (pc[q] = "retry" \/ fpc[q] = "export")
        THEN [c[q] EXCEPT !.refilled = TRUE]
        ELSE c[q]]

\* wrapper, lines 102-137, with the first put of _add_to_queue (line 193):
\* call func, classify the outcome, build the record, put it without
\* blocking.  When the put succeeds the wrapper ends with func's outcome; on
\* queue.Full the producer goes on to flush() (line 197).
WrapperCall(p) ==
    /\ constructed
    /\ pc[p] = "idle"
    /\ nextId <= MaxCalls
    /\ nextId' = nextId + 1
    /\ overlap' = (overlap \/ ExitBegun)
    /\ \E out \in wrapped :
          LET call == [id |-> nextId, func |-> out, rec |-> WrapperRecord(nextId, out),
                       refilled |-> FALSE] IN
          IF ~Full(queue, max_queue_size)
          THEN /\ queue' = Append(queue, call.rec)
               /\ inserted' = inserted \cup {call.id}
               /\ arrivals' = Append(arrivals, call.id)
               /\ calls' = calls \cup {CallEntry(call, NoExc)}
               /\ cur' = MarkRefilled(cur, p)
               /\ UNCHANGED <<pc, fpc>>
          ELSE /\ cur' = [cur EXCEPT ![p] = call]
               /\ pc' = [pc EXCEPT ![p] = "flush"]
               /\ fpc' = [fpc EXCEPT ![p] = "lock"]
               /\ UNCHANGED <<queue, inserted, arrivals, calls>>
    /\ UNCHANGED <<engineVars, handlers, flush_lock, stop_event, records, hidx,
                   raised, dropped, batches, exports>>

\* _add_to_queue, line 198: the retry put after flush().  It is outside any
\* try block, so queue.Full leaves _add_to_queue and the wrapper's finally
\* block; the wrapper then ends (lines 117, 137).
RetryPut(p) ==
    /\ pc[p] = "retry"
    /\ IF ~Full(queue, max_queue_size)
       THEN /\ queue' = Append(queue, cur[p].rec)
            /\ inserted' = inserted \cup {cur[p].id}
            /\ arrivals' = Append(arrivals, cur[p].id)
            /\ calls' = calls \cup {CallEntry(cur[p], NoExc)}
            /\ cur' = [MarkRefilled(cur, p) EXCEPT ![p] = NoCall]
            /\ UNCHANGED dropped
       ELSE /\ dropped' = dropped \cup {cur[p].id}
            /\ calls' = calls \cup {CallEntry(cur[p], QueueFull)}
            /\ cur' = [cur EXCEPT ![p] = NoCall]
            /\ UNCHANGED <<queue, inserted, arrivals>>
    /\ pc' = [pc EXCEPT ![p] = "idle"]
    /\ overlap' = (overlap \/ ExitBegun)
    /\ UNCHANGED <<engineVars, handlers, flush_lock, stop_event, fpc, records,
                   hidx, raised, nextId, batches, exports>>

\* ---------------------------------------------------------------- flush
\* Where a thread continues when its call of flush() ends, normally or by an
\* exception e: the producer at the retry put (with e it leaves
\* _add_to_queue and the wrapper), the periodic thread at the top of its loop (with
\* e it dies, lines 265-267), the main thread at its caller or at line 295
\* of _on_exit (with e it leaves _on_exit).
AfterFlushNoRetry(t, at, e) ==
    CASE t \in Producers -> "idle"
      [] t = "timer" -> IF e = NoExc THEN "wait" ELSE "dead"
      [] at = "exit_flush" -> IF e = NoExc THEN "set" ELSE "raised"
      [] OTHER -> "idle"

AfterFlush(t, at, e) ==
    CASE t \in Producers -> IF e = NoExc THEN "retry" ELSE "idle"
      [] t = "timer" -> IF e = NoExc THEN "wait" ELSE "dead"
      [] at = "exit_flush" -> IF e = NoExc THEN "set" ELSE "raised"
      [] OTHER -> "idle"

\* Which of the four callers of flush() thread t at position `at` is.
FlushSource(t, at) ==
    CASE t \in Producers -> "backpressure"
      [] t = "timer" -> "periodic"
      [] at = "exit_flush" -> "exit"
      [] OTHER -> "manual"

\* Leaving the with block of flush(): the lock is released on every way out.
FlushExitKeepsLock(t, e) ==
    /\ UNCHANGED flush_lock
    /\ fpc' = [fpc EXCEPT ![t] = "none"]
    /\ records' = [records EXCEPT ![t] = <<>>]
    /\ hidx' = [hidx EXCEPT ![t] = 0]
    /\ raised' = [raised EXCEPT ![t] = e]
    /\ pc' = [pc EXCEPT ![t] = AfterFlush(t, pc[t], e)]
    /\ UNCHANGED <<calls, cur>>

FlushExit(t, e) ==
    /\ flush_lock' = "free"
    /\ fpc' = [fpc EXCEPT ![t] = "none"]
    /\ records' = [records EXCEPT ![t] = <<>>]
    /\ hidx' = [hidx EXCEPT ![t] = 0]
    /\ raised' = [raised EXCEPT ![t] = e]
    /\ pc' = [pc EXCEPT ![t] = AfterFlush(t, pc[t], e)]
    /\ IF t \in Producers /\ e # NoExc
       THEN /\ calls' = calls \cup {CallEntry(cur[t], e)}
            /\ cur' = [cur EXCEPT ![t] = NoCall]
       ELSE UNCHANGED <<calls, cur>>

\* line 206: with self._flush_lock
FlushLock(t) ==
    /\ fpc[t] = "lock"
    /\ CanAcquire(flush_lock)
    /\ flush_lock' = t
    /\ fpc' = [fpc EXCEPT ![t] = "empty"]
    /\ UNCHANGED <<engineVars, handlers, queue, stop_event, pc, records, hidx,
                   raised, cur, nextId, histVars, overlap>>

\* lines 210-215: return when the queue is empty, else start collecting.
FlushEmptyCheckAlwaysReturns(t) ==
    /\ fpc[t] = "empty"
    /\ FlushExit(t, NoExc)
    /\ UNCHANGED <<engineVars, handlers, queue, stop_event, nextId,
                   inserted, arrivals, dropped, batches, exports, overlap>>

FlushEmptyCheck(t) ==
    /\ fpc[t] = "empty"
    /\ IF queue = <<>>
       THEN FlushExit(t, NoExc)
       ELSE /\ fpc' = [fpc EXCEPT ![t] = "drain"]
            /\ records' = [records EXCEPT ![t] = <<>>]
            /\ UNCHANGED <<flush_lock, hidx, raised, pc, calls, cur>>
    /\ UNCHANGED <<engineVars, handlers, queue, stop_event, nextId,
                   inserted, arrivals, dropped, batches, exports, overlap>>

\* lines 216-229: one turn of the while loop (empty() then get(); only the
\* lock holder removes records, so the get after a non-empty test finds one),
\* and after the loop the call of _save_records when records were collected.
FlushDrainThenUnlock(t) ==
    /\ fpc[t] = "drain"
    /\ IF queue # <<>>
       THEN /\ records' = [records EXCEPT ![t] = Collect(@, Head(queue))]
            /\ queue' = Dequeue(queue)
            /\ UNCHANGED <<flush_lock, fpc, hidx, raised, pc, batches, calls, cur>>
       ELSE IF records[t] # <<>>
            THEN /\ batches' = Append(batches, [recs |-> records[t],
                                                src |-> FlushSource(t, pc[t]),
                                                done |-> FALSE, sinks |-> <<>>,
                                                left |-> Len(queue)])
                 /\ hidx' = [hidx EXCEPT ![t] = 1]
                 /\ fpc' = [fpc EXCEPT ![t] = "export"]
                 /\ flush_lock' = "free"
                 /\ UNCHANGED <<queue, records, raised, pc, calls, cur>>
            ELSE /\ FlushExit(t, NoExc)
                 /\ UNCHANGED <<queue, batches>>
    /\ UNCHANGED <<engineVars, handlers, stop_event, nextId, inserted, arrivals,
                   dropped, exports, overlap>>

FlushDrain(t) ==
    /\ fpc[t] = "drain"
    /\ IF queue # <<>>
       THEN /\ records' = [records EXCEPT ![t] = Collect(@, Head(queue))]
            /\ queue' = Dequeue(queue)
            /\ UNCHANGED <<flush_lock, fpc, hidx, raised, pc, batches, calls, cur>>
       ELSE IF records[t] # <<>>
            THEN /\ batches' = Append(batches, [recs |-> records[t],
                                                src |-> FlushSource(t, pc[t]),
                                                done |-> FALSE, sinks |-> <<>>,
                                                left |-> Len(queue)])
                 /\ hidx' = [hidx EXCEPT ![t] = 1]
                 /\ fpc' = [fpc EXCEPT ![t] = "export"]
                 /\ UNCHANGED <<queue, flush_lock, records, raised, pc, calls, cur>>
            ELSE /\ FlushExit(t, NoExc)
                 /\ UNCHANGED <<queue, batches>>
    /\ UNCHANGED <<engineVars, handlers, stop_event, nextId, inserted, arrivals,
                   dropped, exports, overlap>>

\* The batch a thread inside _save_records is dispatching: the last one handed over.
CurBatch == Len(batches)

\* for handler in self.handlers: where the loop goes after one export call
\* that ended with exception e (NoExc: it returned).
NextHandlerStopOnError(i, e) == IF e = NoExc THEN i + 1 ELSE MaxHandlers + 2
NextHandlerRetryOnError(i, e) == IF e = NoExc THEN i + 1 ELSE i
NextHandler(i, e) == i + 1

\* _save_records, lines 238-245: one turn of the for loop, or its end, which
\* also ends flush().
SaveRecords(t) ==
    /\ fpc[t] = "export"
    /\ IF hidx[t] <= Len(handlers)
       THEN LET e == SinkExport(handlers[hidx[t]]) IN
            /\ exports' = Append(exports, [batch |-> CurBatch, pos |-> hidx[t],
                                           sink |-> handlers[hidx[t]],
                                           recs |-> records[t],
                                           ok |-> (e = NoExc)])
            /\ IF e = NoExc \/ Caught(e)
               THEN /\ hidx' = [hidx EXCEPT ![t] = NextHandler(@, e)]
                    /\ UNCHANGED <<flush_lock, fpc, records, raised, pc,
                                   batches, calls, cur>>
               ELSE /\ FlushExit(t, e)
                    /\ batches' = [batches EXCEPT ![CurBatch].done = TRUE,
                                                  ![CurBatch].sinks = handlers]
       ELSE /\ FlushExit(t, NoExc)
            /\ batches' = [batches EXCEPT ![CurBatch].done = TRUE,
                                          ![CurBatch].sinks = handlers]
            /\ UNCHANGED exports
    /\ UNCHANGED <<engineVars, handlers, queue, stop_event, nextId,
                   inserted, arrivals, dropped, overlap>>

\* ---------------------------------------------------------------- periodic thread
\* _auto_flush_loop, lines 253-260: one round of the loop up to the call of
\* flush().  The while test (line 253), wait() (line 255: it returns when the
\* interval has passed or the event was set, at once when flush_interval <= 0)
\* and the second test (line 258) are one step at the time of the second
\* test: the event is never cleared, so a while test that finds it set is a
\* second test that finds it set, and one that finds it clear decides nothing.
TimerWakeInverted ==
    /\ pc["timer"] = "wait"
    /\ pc' = [pc EXCEPT !["timer"] = IF stop_event THEN "call" ELSE "dead"]
    /\ UNCHANGED <<engineVars, handlers, queue, flush_lock, stop_event, fpc,
                   records, hidx, raised, cur, nextId, histVars, overlap>>

TimerWake ==
    /\ pc["timer"] = "wait"
    /\ pc' = [pc EXCEPT !["timer"] = IF stop_event THEN "dead" ELSE "call"]
    /\ UNCHANGED <<engineVars, handlers, queue, flush_lock, stop_event, fpc,
                   records, hidx, raised, cur, nextId, histVars, overlap>>

\* line 264: self.flush()
TimerFlush ==
    /\ pc["timer"] = "call"
    /\ pc' = [pc EXCEPT !["timer"] = "flush"]
    /\ fpc' = [fpc EXCEPT !["timer"] = "lock"]
    /\ UNCHANGED <<engineVars, handlers, queue, flush_lock, stop_event, records,
                   hidx, raised, cur, nextId, histVars, overlap>>

\* ---------------------------------------------------------------- main thread
\* A direct call of flush().
UserFlush ==
    /\ constructed
    /\ pc["main"] = "idle"
    /\ pc' = [pc EXCEPT !["main"] = "flush"]
    /\ fpc' = [fpc EXCEPT !["main"] = "lock"]
    /\ raised' = [raised EXCEPT !["main"] = NoExc]
    /\ UNCHANGED <<engineVars, handlers, queue, flush_lock, stop_event, records,
                   hidx, cur, nextId, histVars, overlap>>

\* add_handler, lines 307-312.
add_handler(h) ==
    /\ constructed
    /\ pc["main"] = "idle"
    /\ IF IsHandler(h)
       THEN /\ Len(handlers) < MaxHandlers
            /\ handlers' = Append(handlers, h)
            /\ raised' = [raised EXCEPT !["main"] = NoExc]
       ELSE /\ raised["main"] # TypeErr
            /\ raised' = [raised EXCEPT !["main"] = TypeErr]
            /\ UNCHANGED handlers
    /\ UNCHANGED <<engineVars, queue, flush_lock, stop_event, pc, fpc, records,
                   hidx, cur, nextId, histVars, overlap>>

\* ---------------------------------------------------------------- _on_exit
\* _on_exit without its final flush: straight to line 295.
OnExitNoFlush ==
    /\ constructed
    /\ flush_on_exit
    /\ pc["main"] = "idle"
    /\ pc' = [pc EXCEPT !["main"] = "set"]
    /\ raised' = [raised EXCEPT !["main"] = NoExc]
    /\ overlap' = (\E p \in Producers : pc[p] # "idle")
    /\ UNCHANGED <<engineVars, handlers, queue, flush_lock, stop_event, fpc,
                   records, hidx, cur, nextId, histVars>>

\* line 292: the final flush().  _on_exit is registered with atexit when
\* flush_on_exit is set and runs when the main thread ends.
OnExitFlush ==
    /\ constructed
    /\ flush_on_exit
    /\ pc["main"] = "idle"
    /\ pc' = [pc EXCEPT !["main"] = "exit_flush"]
    /\ fpc' = [fpc EXCEPT !["main"] = "lock"]
    /\ raised' = [raised EXCEPT !["main"] = NoExc]
    /\ overlap' = (\E p \in Producers : pc[p] # "idle")
    /\ UNCHANGED <<engineVars, handlers, queue, flush_lock, stop_event, records,
                   hidx, cur, nextId, histVars>>

\* line 295: self._stop_event.set()
OnExitSet ==
    /\ pc["main"] = "set"
    /\ stop_event' = TRUE
    /\ pc' = [pc EXCEPT !["main"] = "join"]
    /\ UNCHANGED <<engineVars, handlers, queue, flush_lock, fpc, records, hidx,
                   raised, cur, nextId, histVars, overlap>>

\* lines 296-298: self._flush_thread.join()
OnExitJoin ==
    /\ pc["main"] = "join"
    /\ Joined(pc["timer"])
    /\ pc' = [pc EXCEPT !["main"] = "returned"]
    /\ UNCHANGED <<engineVars, handlers, queue, flush_lock, stop_event, fpc,
                   records, hidx, raised, cur, nextId, histVars, overlap>>

\* ---------------------------------------------------------------- specification
Next ==
    \/ Construct
    \/ \E p \in Producers : WrapperCall(p)
    \/ \E p \in Producers : RetryPut(p)
    \/ \E t \in Threads : FlushLock(t)
    \/ \E t \in Threads : FlushEmptyCheck(t)
    \/ \E t \in Threads : FlushDrain(t)
    \/ \E t \in Threads : SaveRecords(t)
    \/ TimerWake
    \/ TimerFlush
    \/ UserFlush
    \/ \E h \in HandlerInputs : add_handler(h)
    \/ OnExitFlush
    \/ OnExitSet
    \/ OnExitJoin

Spec == Init /\ [][Next]_vars
SpecWrapper == InitWrapper /\ [][Next]_vars
SpecAnyConfig == InitAnyConfig /\ [][Next]_vars
SpecScenario == InitScenario /\ [][Next]_vars

\* Fair scheduling.  A thread that is inside an engine call takes its next
\* step: the steps of flush() under the lock, the retry put, the periodic
\* loop (Event.wait returns after flush_interval at the latest) and the rest
\* of _on_exit.  A thread blocked at `with self._flush_lock` gets the lock
\* when it is free again and again (strong fairness): between two periodic
\* flushes the lock stays free for flush_interval seconds.  Whether a thread
\* starts a call (wrapper, flush, add_handler, _on_exit) is left open.
Fairness ==
    /\ \A t \in Threads : SF_vars(FlushLock(t))
    /\ \A t \in Threads : WF_vars(FlushEmptyCheck(t) \/ FlushDrain(t) \/ SaveRecords(t))
    /\ \A p \in Producers : WF_vars(RetryPut(p))
    /\ WF_vars(TimerWake \/ TimerFlush)
    /\ WF_vars(OnExitSet \/ OnExitJoin)
SpecFair == Init /\ [][Next]_vars /\ Fairness


\* ---------------------------------------------------------------- claims
\* Threads between the first get() and the call of _save_records: their
\* local list holds records that are in no batch yet.
Collecting == {t \in Threads : fpc[t] = "drain"}

\* Threads inside the with block of flush().
InsideFlush == {t \in Threads : fpc[t] \in {"empty", "drain", "export"}}

RECURSIVE Flat(_)
Flat(ss) == IF ss = <<>> THEN <<>> ELSE Head(ss) \o Flat(Tail(ss))

ThreadSeq == <<"p1", "p2", "timer", "main">>

\* The records of all batches handed to _save_records, and the records in
\* the lists that flushes are collecting.
Batched == Flat([b \in DOMAIN batches |-> batches[b].recs])
BeingCollected ==
    Flat([i \in DOMAIN ThreadSeq |->
            IF ThreadSeq[i] \in Collecting THEN records[ThreadSeq[i]] ELSE <<>>])

\* Every record the engine holds, with repetitions.
Held == queue \o BeingCollected \o Batched

\* C1: under every interleaving of enqueues and periodic, backpressure and
\* manual flushes, the records held by the queue, by the list a flush is
\* collecting and by the batches handed to _save_records are exactly the
\* records whose put succeeded, each held once; and whenever no flush is
\* collecting, the records of all batches plus the records in the queue
\* number exactly the records inserted.
C1_ExactlyOnce ==
    /\ Ids(Held) = inserted
    /\ Len(Held) = Cardinality(inserted)
    /\ Collecting = {} => Len(Batched) + Len(queue) = Cardinality(inserted)

\* One batch drained by the periodic thread and one by a producer under
\* backpressure, a third record in the queue, and a manual flush() waiting
\* for the lock.
C1_Witness ==
    /\ Collecting = {}
    /\ \E a, b \in DOMAIN batches :
          /\ batches[a].src = "periodic"
          /\ batches[b].src = "backpressure"
    /\ pc["main"] = "flush"
    /\ Len(queue) > 0
    /\ Len(Batched) + Len(queue) = 3

\* C2: at most one thread is inside the with block of flush(), it is the
\* holder of the flush lock, the lock is free when no thread is inside, and
\* the records a flush collects are in no batch of an earlier flush.
C2_MutualExclusion ==
    /\ Cardinality(InsideFlush) <= 1
    /\ \A t \in InsideFlush : flush_lock = t
    /\ InsideFlush = {} => flush_lock = "free"
    /\ Ids(BeingCollected) \cap Ids(Batched) = {}
    /\ Len(Batched) = Cardinality(Ids(Batched))

\* One thread dispatches its batch while a second caller of flush() waits
\* for the lock, after an earlier flush has already dispatched a batch.
C2_Witness ==
    /\ \E t, u \in Threads : t # u /\ fpc[t] = "export" /\ fpc[u] = "lock"
    /\ Len(batches) >= 2

\* C3: when the retry put of _add_to_queue finds the queue full again, the
\* record is dropped and the call of the wrapper ends with the wrapped
\* function's own outcome: no error of the engine reaches the caller.
C3_DropIsSilent ==
    \A c \in calls : c.id \in dropped => (c.id \notin inserted /\ c.seen = c.func)

\* C4: when the wrapped function raises e, the caller of the wrapper
\* observes exactly e, and the record handed to the engine has status error
\* and error_info str(e).
C4_ErrorUnchanged ==
    \A c \in calls :
       c.func.kind = "raise" =>
          /\ c.seen = c.func
          /\ c.rec.status = "error"
          /\ c.rec.error_info = Str(c.func.exc)

\* C5: every invocation of the wrapper calls _add_to_queue exactly once,
\* with a record of status success and empty error_info when the function
\* returned and status error when it raised, and when the function returned
\* v the wrapper returns v.
C5_OneRecordPerCall ==
    \A c \in calls :
       /\ c.adds = 1
       /\ c.func.kind = "return" => (c.rec.status = "success" /\ c.rec.error_info = "")
       /\ c.func.kind = "raise" => c.rec.status = "error"
       /\ c.func.kind = "return" => c.seen = c.func

\* The export calls made for batch b, in the order they were made.
ExportsOf(b) == LET Of(e) == e.batch = b IN SelectSeq(exports, Of)

\* C6: for every batch handed to _save_records, export is called on the
\* handlers in registration order, once each, with the complete batch,
\* whatever the earlier handlers did: while the batch is being dispatched
\* the calls made are those for the handlers before the loop position, and
\* when the flush has ended every registered handler has been called; no
\* handler error leaves flush().
C6_SinkIsolation ==
    /\ \A b \in DOMAIN batches :
          LET E == ExportsOf(b) IN
          /\ \A i \in DOMAIN E :
                /\ E[i].pos = i
                /\ i <= Len(handlers) /\ E[i].sink = handlers[i]
                /\ E[i].recs = batches[b].recs
                /\ E[i].ok = (handlers[i] = "ok")
          /\ batches[b].done => Len(E) = Len(batches[b].sinks)
          /\ ~batches[b].done =>
                /\ b = Len(batches)
                /\ \E t \in Threads : /\ fpc[t] = "export"
                                      /\ batches[b].src = FlushSource(t, pc[t])
                                      /\ Len(E) = hidx[t] - 1
    /\ \A t \in Threads : raised[t] # SinkErr

\* A finished flush whose first handler raised and whose second handler, a
\* succeeding one, received the whole batch of two records.
C6_Witness ==
    \E b \in DOMAIN batches :
       /\ batches[b].done
       /\ Len(batches[b].recs) = 2
       /\ batches[b].sinks = <<"fail", "ok">>
       /\ ~ExportsOf(b)[1].ok
       /\ ExportsOf(b)[2].ok /\ ExportsOf(b)[2].recs = batches[b].recs

\* The records handler position h received in export calls that returned.
Received(h) ==
    Flat([k \in DOMAIN exports |->
            IF exports[k].pos = h /\ exports[k].ok THEN exports[k].recs ELSE <<>>])

\* _on_exit has returned and no wrapper invocation ran while or after it ran.
QuietShutdown == pc["main"] = "returned" /\ ~overlap /\ dropped = {}

\* C7: when _on_exit returns after K invocations were enqueued, none of
\* them dropped and none concurrent with or after _on_exit, the queue is
\* empty, no flush is in progress, and every succeeding handler that was
\* registered at construction has received each of the K records exactly once.
C7_ShutdownComplete ==
    QuietShutdown =>
       /\ queue = <<>>
       /\ InsideFlush = {}
       /\ Cardinality(inserted) = nextId - 1
       /\ \A h \in DOMAIN handlers0 :
             handlers0[h] = "ok" =>
                /\ Ids(Received(h)) = inserted
                /\ Len(Received(h)) = Cardinality(inserted)

\* K = 3 records, some dispatched by a periodic flush and the rest by the
\* final flush of _on_exit, to a succeeding handler given to the constructor.
C7_Witness ==
    /\ QuietShutdown
    /\ Cardinality(inserted) = 3
    /\ \E h \in DOMAIN handlers0 : handlers0[h] = "ok"
    /\ \E a, b \in DOMAIN batches :
          /\ batches[a].src = "periodic"
          /\ batches[b].src = "exit"

\* C8: _on_exit sets the stop event only after its final flush has ended,
\* and when it has returned the periodic thread has terminated, is not
\* inside flush() and does not hold the flush lock.
C8_TimerStopped ==
    /\ stop_event => pc["main"] \in {"join", "returned"}
    /\ pc["main"] = "returned" =>
          /\ stop_event
          /\ pc["timer"] = "dead"
          /\ fpc["timer"] = "none"
          /\ flush_lock # "timer"

\* _on_exit has returned after the periodic thread dispatched a batch that
\* was drained later than the batch of the final flush.
C8_Witness ==
    /\ pc["main"] = "returned"
    /\ \E a, b \in DOMAIN batches :
          /\ a < b
          /\ batches[a].src = "exit"
          /\ batches[b].src = "periodic"

\* C9: the periodic thread never executes the call of flush() at line 264
\* in a state where the stop event is set.
C9_NoFlushAfterStop ==
    [][(pc["timer"] = "call" /\ pc'["timer"] = "flush") => ~stop_event]_vars

\* C10: an engine whose max_queue_size or flush_interval is not positive is
\* never constructed: it accepts no record and its periodic thread never runs.
C10_InvalidConfigRejected ==
    (max_queue_size <= 0 \/ flush_interval <= 0) =>
       /\ ~constructed
       /\ pc["timer"] = "unstarted"
       /\ inserted = {}

\* ---------------------------------------------------------------- C11..C20
AllDispatched == \A b \in DOMAIN batches : batches[b].done

\* C11: a producer whose first put found the queue full calls flush() once
\* and then puts once more: from the flush it goes only to the retry, from
\* the retry only back to its caller.  When no other producer has put a
\* record in between, the retry finds the queue empty and every earlier
\* record in a batch that _save_records has finished, and after the retry the
\* new record is the only content of the queue.
C11_Backpressure ==
    /\ [](\A p \in Producers :
            (pc[p] = "retry" /\ ~cur[p].refilled) =>
                /\ queue = <<>>
                /\ Ids(Batched) = inserted
                /\ AllDispatched)
    /\ [][\A p \in Producers :
            /\ (pc[p] = "flush" /\ pc'[p] # "flush") =>
                    (pc'[p] = "retry" /\ fpc'[p] = "none" /\ cur'[p] = cur[p])
            /\ (pc[p] = "flush" /\ fpc[p] = "none") => FALSE
            /\ (pc[p] = "retry" /\ pc'[p] # "retry") =>
                    /\ pc'[p] = "idle"
                    /\ Len(batches') = Len(batches)
                    /\ cur[p].id \in (inserted' \cup dropped') \ (inserted \cup dropped)
                    /\ ~cur[p].refilled =>
                            (queue' = <<cur[p].rec>> /\ cur[p].id \in inserted')]_vars

C11_Witness ==
    /\ max_queue_size = 2
    /\ \A p \in Producers : pc[p] = "idle"
    /\ Len(batches) = 1
    /\ batches[1].src = "backpressure"
    /\ batches[1].done
    /\ Ids(batches[1].recs) = {1, 2}
    /\ Len(queue) = 1
    /\ queue[1].id = 3
    /\ \E c \in calls : c.id = 3 /\ c.seen = c.func

IdSeq(s) == [i \in DOMAIN s |-> s[i].id]
InArrivalOrder == Batched \o BeingCollected \o queue
ExportsTo(b, h) == {k \in DOMAIN exports : exports[k].batch = b /\ exports[k].pos = h}

\* C13: the records put since the last drain are what the next flush()
\* hands over: every batch is the run of arrivals that follows the earlier
\* batches, in arrival order, nothing left out and nothing added; the drain
\* loop ended on an empty queue; what a handler is given is the batch, whole
\* and in that order.  N <= max_queue_size puts into an empty queue and then
\* a flush are the case where nothing else happens in between.
C13_NoLossUnderCapacity ==
    [](/\ IdSeq(InArrivalOrder) = arrivals
       /\ \A b \in DOMAIN batches : batches[b].recs # <<>> /\ batches[b].left = 0
       /\ \A k \in DOMAIN exports : exports[k].recs = batches[exports[k].batch].recs)

C13_Witness ==
    /\ max_queue_size = 2
    /\ Len(batches) = 1
    /\ batches[1].src = "manual"
    /\ batches[1].done
    /\ IdSeq(batches[1].recs) = <<1, 2>>
    /\ arrivals = <<1, 2>>
    /\ Len(batches[1].sinks) = 2
    /\ Len(exports) = 2
    /\ queue = <<>>

\* The scenario has run: three wrapper invocations, all returned before
\* _on_exit was called, _on_exit has returned, the handler list is the one
\* succeeding handler, and neither the periodic thread nor a direct call of
\* flush() has drained anything.
ScenarioRan ==
    /\ pc["main"] = "returned"
    /\ ~overlap
    /\ nextId = 4
    /\ handlers = <<"ok">>
    /\ \A b \in DOMAIN batches : batches[b].src \in {"backpressure", "exit"}

\* The scenario is under way: the third invocation has returned and nothing
\* but its own flush() has drained or is draining the queue.
ScenarioThirdDone ==
    /\ ~ExitBegun
    /\ nextId = 4
    /\ \A p \in Producers : pc[p] = "idle"
    /\ handlers = <<"ok">>
    /\ Collecting = {}
    /\ \A b \in DOMAIN batches : batches[b].src = "backpressure"

\* C14: with max_queue_size = 2 and one succeeding handler, after the puts of
\* R1, R2, R3 the handler has received [R1, R2] from the flush the put of R3
\* caused and R3 is alone in the queue; after _on_exit the handler has
\* received exactly two export calls, [R1, R2] then [R3].
C14_Scenario ==
    /\ ScenarioThirdDone =>
           /\ arrivals = <<1, 2, 3>>
           /\ IdSeq(queue) = <<3>>
           /\ Len(exports) = 1
           /\ IdSeq(exports[1].recs) = <<1, 2>>
           /\ exports[1].ok
    /\ ScenarioRan =>
           /\ arrivals = <<1, 2, 3>>
           /\ dropped = {}
           /\ queue = <<>>
           /\ Len(exports) = 2
           /\ IdSeq(exports[1].recs) = <<1, 2>>
           /\ IdSeq(exports[2].recs) = <<3>>
           /\ exports[1].ok /\ exports[2].ok
           /\ batches[1].src = "backpressure"
           /\ batches[2].src = "exit"

C14_Witness == ScenarioRan /\ Len(exports) = 2 /\ batches[2].src = "exit"

\* Everything but the handler list and the exception of the main thread's
\* last call.
AllButHandlers ==
    <<engineVars, queue, flush_lock, stop_event, pc, fpc, records, hidx, cur,
      nextId, histVars, overlap>>

\* C15: the handler list holds Handlers only and changes in one way: a
\* Handler is appended at its end, by a call that changes nothing else and
\* raises nothing.  A call that raises TypeError leaves the handler list, the
\* queue and everything else as they were.
C15_AddHandler ==
    /\ [](\A i \in DOMAIN handlers : handlers[i] \in HandlerKinds)
    /\ [][/\ handlers' # handlers =>
              /\ \E h \in HandlerKinds : handlers' = Append(handlers, h)
              /\ raised'["main"] = NoExc
              /\ UNCHANGED AllButHandlers
          /\ (raised'["main"] = TypeErr /\ raised["main"] # TypeErr) =>
              /\ UNCHANGED handlers
              /\ UNCHANGED AllButHandlers]_vars

C15_Witness ==
    /\ Len(handlers) = Len(handlers0) + 1
    /\ raised["main"] = TypeErr
    /\ queue # <<>>
    /\ \E j, k \in DOMAIN exports :
           /\ j < k
           /\ exports[j].batch = exports[k].batch
           /\ exports[j].pos = Len(handlers0)
           /\ exports[k].pos = Len(handlers0) + 1
           /\ exports[k].sink = handlers[Len(handlers)]

\* C16: a constructed engine never holds more records in its queue than
\* max_queue_size.
C16_QueueBounded == (constructed /\ queue # <<>>) => Len(queue) <= max_queue_size

\* C17: a wrapper invocation that finds room in the queue puts its record
\* and returns in one go: no thread moves into or inside flush(), the lock
\* is as it was, no batch is made and no handler is called.  A record in the
\* queue is in no batch, the one being exported included, and a batch never
\* changes once it is made: the record goes into a later batch.
C17_PutWithoutLock ==
    /\ [](Ids(queue) \cap Ids(Batched) = {})
    /\ [][/\ (nextId' # nextId /\ Len(queue) < max_queue_size) =>
              /\ IdSeq(queue') = Append(IdSeq(queue), nextId)
              /\ \E c \in calls' : c.id = nextId
              /\ UNCHANGED <<pc, fpc, flush_lock, records, hidx, batches, exports, handlers>>
          /\ \A b \in DOMAIN batches :
                 b \in DOMAIN batches' /\ batches'[b].recs = batches[b].recs]_vars

C17_Witness ==
    \E t \in Threads :
       /\ fpc[t] = "export"
       /\ flush_lock = t
       /\ hidx[t] = 2
       /\ ~batches[CurBatch].done
       /\ \E c \in calls : c.id \in Ids(queue) /\ c.id \notin Ids(records[t])

\* The batches for which a handler's export raised.
FailedBatches ==
    {b \in DOMAIN batches : \E k \in DOMAIN exports : exports[k].batch = b /\ ~exports[k].ok}

\* C18: once a handler has raised for a batch, each record of the batch
\* occurs once in all batches, collected lists and the queue together (it
\* is not back in the queue, not collected again and in no other batch), an
\* export call carries the records of its own batch only, and the failing
\* handler is not called again for the batch: each export call goes to a
\* later handler of the same batch or to a later batch than the one before.
C18_NoRetryNoRequeue ==
    [](/\ LET s == IdSeq(InArrivalOrder) IN
             \A b \in FailedBatches :
                \A i \in DOMAIN batches[b].recs :
                   Cardinality({j \in DOMAIN s : s[j] = batches[b].recs[i].id}) = 1
       /\ \A k \in DOMAIN exports :
             /\ exports[k].recs = batches[exports[k].batch].recs
             /\ k > 1 =>
                   \/ exports[k - 1].batch < exports[k].batch
                   \/ /\ exports[k - 1].batch = exports[k].batch
                      /\ exports[k - 1].pos < exports[k].pos)

C18_Witness ==
    \E b, c \in FailedBatches :
       /\ b < c
       /\ batches[b].done
       /\ batches[c].done
       /\ Len(batches[b].sinks) = 2
       /\ queue # <<>>

\* The batches drained by the flush() of _on_exit.
ExitBatches == {b \in DOMAIN batches : batches[b].src = "exit"}

\* A handler has raised during the flush() of _on_exit, which is still running.
ExitSinkFailed == pc["main"] = "exit_flush" /\ FailedBatches \cap ExitBatches # {}

\* C19: no handler exception leaves flush() into _on_exit; when a handler
\* has raised during the final flush, _on_exit still returns (under fair
\* scheduling), and when it has returned the event is set, the periodic
\* thread has ended and every handler has been called once with the final
\* batch, the ones after the failing handler included.
C19_ShutdownSurvivesSinkError ==
    /\ [](pc["main"] # "raised" /\ raised["main"] # SinkErr)
    /\ [](pc["main"] = "returned" =>
            /\ stop_event
            /\ pc["timer"] = "dead"
            /\ \A b \in ExitBatches :
                   /\ batches[b].done
                   /\ batches[b].sinks = handlers
                   /\ \A h \in DOMAIN handlers :
                          /\ Cardinality(ExportsTo(b, h)) = 1
                          /\ \A k \in ExportsTo(b, h) :
                                 exports[k].recs = batches[b].recs)
    /\ ExitSinkFailed ~> (pc["main"] = "returned")

C19_Witness ==
    /\ pc["main"] = "returned"
    /\ pc["timer"] = "dead"
    /\ \E b \in ExitBatches \cap FailedBatches :
           /\ batches[b].sinks = <<"fail", "ok">>
           /\ Len(batches[b].recs) = 2
           /\ \E k \in ExportsTo(b, 2) : exports[k].ok /\ exports[k].recs = batches[b].recs

\* Record id is in a batch that _save_records has finished.
Dispatched(id) == \E b \in DOMAIN batches : batches[b].done /\ id \in Ids(batches[b].recs)

\* C20: while the event is not set the periodic thread of a constructed
\* engine is alive, whatever the handlers did; a wake that finds the event
\* clear is followed by a call of flush(), and the return of that call by
\* the next round of the loop.  Hence, under fair scheduling, a record in the
\* queue is in a finished batch later on, unless the event is set first.
C20_PeriodicLiveness ==
    /\ []((constructed /\ ~stop_event) => pc["timer"] \in {"wait", "call", "flush"})
    /\ [][/\ (pc["timer"] = "wait" /\ pc'["timer"] # "wait" /\ ~stop_event) =>
                 pc'["timer"] = "call"
          /\ (pc["timer"] = "call" /\ pc'["timer"] # "call") =>
                 (pc'["timer"] = "flush" /\ fpc'["timer"] = "lock")
          /\ (pc["timer"] = "flush" /\ pc'["timer"] # "flush") =>
                 pc'["timer"] = "wait"]_vars
    /\ \A id \in 1..MaxCalls : (id \in Ids(queue)) ~> (Dispatched(id) \/ stop_event)

C20_Witness ==
    /\ handlers = <<"fail">>
    /\ ~stop_event
    /\ pc["timer"] = "wait"
    /\ pc["main"] = "idle"
    /\ Len(batches) = 3
    /\ \A b \in DOMAIN batches : batches[b].src = "periodic" /\ batches[b].done
    /\ \A k \in DOMAIN exports : ~exports[k].ok
    /\ queue = <<>>

\* Threads inside _save_records: export is executing, or about to be called,
\* in these threads only.
Exporting == {t \in Threads : fpc[t] = "export"}

\* What the sink at position h of the handler list was given, batch after
\* batch in the order of the export calls.
GivenTo(h) ==
    Flat([k \in DOMAIN exports |->
            IF exports[k].pos = h THEN exports[k].recs ELSE <<>>])

\* c is the run of s that starts after its first off elements.
IsRunOf(c, s, off) ==
    /\ off + Len(c) <= Len(s)
    /\ \A i \in DOMAIN c : c[i] = s[off + i]

\* C21: dispatch runs inside the flush lock, so export never executes in two
\* threads at once: at most one thread is inside _save_records, it holds the
\* flush lock, and every export call is made by the lock holder for the
\* batch drained last; each sink is given the batches in the order they were
\* drained, each at most once; and the concatenation of the batches a sink
\* was given is an unbroken run of the records in the order of their puts,
\* from the first put on for a sink passed to the constructor.
C21_ExportsSerialFifo ==
    /\ [](/\ Cardinality(Exporting) <= 1
          /\ \A t \in Exporting : flush_lock = t
          /\ \A k, l \in DOMAIN exports :
                (k < l /\ exports[k].pos = exports[l].pos)
                   => exports[k].batch < exports[l].batch
          /\ \A h \in DOMAIN handlers :
                LET given == IdSeq(GivenTo(h)) IN
                /\ \E off \in 0..Len(arrivals) : IsRunOf(given, arrivals, off)
                /\ h \in DOMAIN handlers0 => IsRunOf(given, arrivals, 0))
    /\ [][exports' # exports =>
            \E t \in Threads :
               /\ fpc[t] = "export"
               /\ flush_lock = t
               /\ \A u \in Threads \ {t} : fpc[u] \notin {"drain", "export"}
               /\ Len(exports') = Len(exports) + 1
               /\ exports'[Len(exports')].batch = Len(batches)
               /\ exports'[Len(exports')].recs = batches[Len(batches)].recs]_vars

\* The succeeding sink was given one batch drained by a producer under
\* backpressure and a later one drained by another thread while a third
\* caller of flush() waits for the lock; the two batches together hold three
\* records.
C21_Witness ==
    /\ \E k, l \in DOMAIN exports :
          /\ k < l
          /\ exports[k].ok /\ exports[l].ok
          /\ exports[k].pos = exports[l].pos
          /\ batches[exports[k].batch].src = "backpressure"
          /\ batches[exports[l].batch].src # "backpressure"
          /\ Len(IdSeq(GivenTo(exports[k].pos))) = 3
    /\ \E u \in Threads : fpc[u] = "lock"

====
